---- MODULE Spec2Model ----
(***************************************************************************)
(* Model of the ZC-030 timesheet web UI (sarathgosh/TimeSheet):            *)
(*   src/timesheet_webui.py           the plain editor with import/export  *)
(*   src/timesheet_webui_autofill.py  the editor with Row IDs and autofill *)
(*                                                                         *)
(* Text is a sequence of one-character strings, so that strip, split, int  *)
(* and the format conversions are computed as the Python code computes     *)
(* them.  A float number of hours is kept exactly: parse_break_to_hours is *)
(* counted in minutes (hours * 60) and every value that went through       *)
(* round(x, 2) is counted in hundredths of an hour (hours * 100).          *)
(***************************************************************************)
EXTENDS Integers, Sequences, FiniteSets, TLC

VARIABLES
    employee,     \* st.session_state.employee
    table,        \* st.session_state.table
    total_hours,  \* st.session_state.total_hours, in hundredths
    uuids,        \* the number of uuid4 identifiers drawn so far
    up,           \* the file held by the "Import" uploader
    last,         \* what the last script run did (its handler and outcome)
    call          \* a function applied on its own (arguments and result),
                  \* or the download the last run offers

vars == <<employee, table, total_hours, uuids, up, last, call>>

(***************************************************************************)
(* Python str primitives                                                   *)
(***************************************************************************)
Digits == {"0","1","2","3","4","5","6","7","8","9"}

DigitVal(c) ==
    CASE c = "0" -> 0 [] c = "1" -> 1 [] c = "2" -> 2 [] c = "3" -> 3
      [] c = "4" -> 4 [] c = "5" -> 5 [] c = "6" -> 6 [] c = "7" -> 7
      [] c = "8" -> 8 [] c = "9" -> 9

DigitChar(n) ==
    CASE n = 0 -> "0" [] n = 1 -> "1" [] n = 2 -> "2" [] n = 3 -> "3"
      [] n = 4 -> "4" [] n = 5 -> "5" [] n = 6 -> "6" [] n = 7 -> "7"
      [] n = 8 -> "8" [] n = 9 -> "9"

IsSpace(c) == c = " "

\* str.lstrip() / str.rstrip() / str.strip()
RECURSIVE LStrip(_)
LStrip(s) ==
    IF s # <<>> /\ IsSpace(Head(s)) THEN LStrip(Tail(s)) ELSE s

RECURSIVE RStrip(_)
RStrip(s) ==
    IF s # <<>> /\ IsSpace(s[Len(s)]) THEN RStrip(SubSeq(s, 1, Len(s) - 1)) ELSE s

Strip(s) == RStrip(LStrip(s))

\* c in s
Contains(s, c) == \E i \in 1..Len(s) : s[i] = c

\* s.split(c): the list of the parts between the occurrences of c
RECURSIVE SplitFrom(_, _, _)
SplitFrom(s, c, cur) ==
    IF s = <<>> THEN <<cur>>
    ELSE IF Head(s) = c THEN <<cur>> \o SplitFrom(Tail(s), c, <<>>)
    ELSE SplitFrom(Tail(s), c, Append(cur, Head(s)))

Split(s, c) == SplitFrom(s, c, <<>>)

\* s[:n] and s[n:]
Take(s, n) == SubSeq(s, 1, IF n < Len(s) THEN n ELSE Len(s))
Drop(s, n) == SubSeq(s, n + 1, Len(s))

\* s.zfill(4): zeros on the left up to width 4, after a leading sign
RECURSIVE ZerosTo(_, _)
ZerosTo(s, w) == IF Len(s) >= w THEN s ELSE ZerosTo(<<"0">> \o s, w)

zfill4(s) ==
    IF Len(s) >= 4 THEN s
    ELSE IF s # <<>> /\ Head(s) \in {"+", "-"}
         THEN <<Head(s)>> \o ZerosTo(Tail(s), 3)
         ELSE ZerosTo(s, 4)

AllDigits(s) == s # <<>> /\ \A i \in 1..Len(s) : s[i] \in Digits

RECURSIVE DigitsVal(_, _)
DigitsVal(s, acc) ==
    IF s = <<>> THEN acc ELSE DigitsVal(Tail(s), acc * 10 + DigitVal(Head(s)))

\* int(s): surrounding whitespace is ignored, one optional sign, then digits;
\* anything else raises ValueError.
IntBody(s) == IF Strip(s) # <<>> /\ Head(Strip(s)) \in {"+", "-"}
              THEN Tail(Strip(s)) ELSE Strip(s)

IsInt(s) == AllDigits(IntBody(s))

IntVal(s) ==
    IF Strip(s) # <<>> /\ Head(Strip(s)) = "-"
    THEN 0 - DigitsVal(IntBody(s), 0)
    ELSE DigitsVal(IntBody(s), 0)

\* str(n) of a natural number
RECURSIVE NatToText(_)
NatToText(n) ==
    IF n < 10 THEN <<DigitChar(n)>>
    ELSE Append(NatToText(n \div 10), DigitChar(n % 10))

\* f"{n:02d}": the sign counts in the width
Fmt02d(n) ==
    IF n < 0 THEN <<"-">> \o NatToText(0 - n)
    ELSE ZerosTo(NatToText(n), 2)

\* f"{n:04d}" of a natural number
Fmt04d(n) == ZerosTo(NatToText(n), 4)

(***************************************************************************)
(* Cells of a DataFrame: text, a number (hundredths of an hour), or a      *)
(* missing value (None / NaN).                                             *)
(***************************************************************************)
Txt(s)  == [t |-> "str", s |-> s, n |-> 0]
Num(n)  == [t |-> "num", s |-> <<>>, n |-> n]
Missing == [t |-> "none", s |-> <<>>, n |-> 0]

IsStr(c) == c.t = "str"

(***************************************************************************)
(* Time helpers                                                            *)
(***************************************************************************)
NoTime == [ok |-> FALSE, hour |-> 0, minute |-> 0]

\* datetime.time(h, m): ValueError outside 0..23 / 0..59
MkTime(h, m) ==
    IF h >= 0 /\ h <= 23 /\ m >= 0 /\ m <= 59
    THEN [ok |-> TRUE, hour |-> h, minute |-> m]
    ELSE NoTime

Max0(x) == IF x > 0 THEN x ELSE 0

\* int(h) * 60 + int(m) of the two parts, clamped at 0
BreakOf(h, m) ==
    IF ~IsInt(h) \/ ~IsInt(m) THEN 0 ELSE Max0(IntVal(h) * 60 + IntVal(m))

BreakParts(parts) ==
    IF Len(parts) # 2 THEN 0 ELSE BreakOf(parts[1], parts[2])

\* parse_break_to_hours, in minutes (hours * 60)
parse_break_to_hours(c) ==
    IF ~IsStr(c) THEN 0
    ELSE IF Strip(c.s) = <<>> THEN 0
    ELSE BreakParts(Split(Strip(c.s), ":"))

\* time(int(h), int(m)); a ValueError of int() or time() gives None
TimeOf(h, m) ==
    IF ~IsInt(h) \/ ~IsInt(m) THEN NoTime ELSE MkTime(IntVal(h), IntVal(m))

TimeParts(parts) ==
    IF Len(parts) # 2 THEN NoTime ELSE TimeOf(parts[1], parts[2])

TimeStripped(s) ==
    IF s = <<>> THEN NoTime
    ELSE IF Contains(s, ":") THEN TimeParts(Split(s, ":"))
    ELSE IF Len(s) \in {3, 4} THEN TimeOf(Take(zfill4(s), 2), Drop(zfill4(s), 2))
    ELSE NoTime

\* to_time_obj on a text: every exception of the try block gives None
ToTimeText(t) == TimeStripped(Strip(t))

\* to_time_obj: (s or "") makes None the empty text
to_time_obj(c) ==
    IF c.t = "none" THEN NoTime ELSE ToTimeText(c.s)

\* f"{int(h):02d}:{int(m):02d}", or other when int() raises
HhmmOf(h, m, other) ==
    IF IsInt(h) /\ IsInt(m)
    THEN Fmt02d(IntVal(h)) \o <<":">> \o Fmt02d(IntVal(m))
    ELSE other

HhmmParts(parts, s) ==
    IF Len(parts) = 2 THEN HhmmOf(parts[1], parts[2], s) ELSE s

\* in the digits branch s was rebound to s.zfill(4) before int() raised
HhmmStripped(s) ==
    IF Contains(s, ":") THEN HhmmParts(Split(s, ":"), s)
    ELSE IF Len(s) \in {3, 4}
    THEN HhmmOf(Take(zfill4(s), 2), Drop(zfill4(s), 2), zfill4(s))
    ELSE s

\* hhmm_or_blank on a text value
HhmmText(t) == HhmmStripped(Strip(t))

\* hhmm_or_blank: a non-empty str is normalised, anything else gives ""
hhmm_or_blank(c) ==
    IF IsStr(c) /\ c.s # <<>> THEN Txt(HhmmText(c.s)) ELSE Txt(<<>>)

\* round(minutes / 60.0, 2), in hundredths; minutes >= 0.  minutes * 100 / 60
\* is never half-way between two hundredths, so the float rounds to nearest.
Round2(minutes) == (10 * minutes + 3) \div 6

MinutesPerDay == 1440

\* t.hour * 60 + t.minute
MinuteOfDay(t) == t.hour * 60 + t.minute

\* "if em < sm: em += 24 * 60"
OverMidnight(sm, em) == IF em < sm THEN em + MinutesPerDay ELSE em

OverMidnightLe(sm, em) == IF em <= sm THEN em + MinutesPerDay ELSE em

\* max(0, max(0, em - sm) - break), in minutes
NetMinutes(sm, em, brk) == Max0(Max0(OverMidnight(sm, em) - sm) - brk)

calc_row_hours_lewrap(start, end, brk) ==
    IF ~to_time_obj(start).ok \/ ~to_time_obj(end).ok THEN 0
    ELSE Round2(Max0(Max0(OverMidnightLe(MinuteOfDay(to_time_obj(start)),
                                         MinuteOfDay(to_time_obj(end)))
                          - MinuteOfDay(to_time_obj(start)))
                     - parse_break_to_hours(brk)))

SignedRound2(net) == IF net >= 0 THEN Round2(net) ELSE 0 - Round2(0 - net)

calc_row_hours_noclamp(start, end, brk) ==
    IF ~to_time_obj(start).ok \/ ~to_time_obj(end).ok THEN 0
    ELSE SignedRound2(OverMidnight(MinuteOfDay(to_time_obj(start)),
                                   MinuteOfDay(to_time_obj(end)))
                      - MinuteOfDay(to_time_obj(start))
                      - parse_break_to_hours(brk))

\* calc_row_hours, in hundredths of an hour
calc_row_hours(start, end, brk) ==
    IF ~to_time_obj(start).ok \/ ~to_time_obj(end).ok THEN 0
    ELSE Round2(NetMinutes(MinuteOfDay(to_time_obj(start)),
                           MinuteOfDay(to_time_obj(end)),
                           parse_break_to_hours(brk)))

(***************************************************************************)
(* Dates.  A date is its proleptic Gregorian ordinal (date.toordinal()),   *)
(* 0 standing for "no date" (None).                                        *)
(***************************************************************************)
NoDate == 0

IsLeap(y) == (y % 4 = 0) /\ ((y % 100 # 0) \/ (y % 400 = 0))

DaysInMonth(y, m) ==
    CASE m \in {1, 3, 5, 7, 8, 10, 12} -> 31
      [] m \in {4, 6, 9, 11} -> 30
      [] OTHER -> IF IsLeap(y) THEN 29 ELSE 28

DaysBeforeYear(y) ==
    (y - 1) * 365 + ((y - 1) \div 4) - ((y - 1) \div 100) + ((y - 1) \div 400)

RECURSIVE DaysBeforeMonth(_, _)
DaysBeforeMonth(y, m) ==
    IF m = 1 THEN 0 ELSE DaysBeforeMonth(y, m - 1) + DaysInMonth(y, m - 1)

\* datetime.date(y, m, d): ValueError when the day does not exist
MkDate(y, m, d) ==
    IF y >= 1 /\ m >= 1 /\ m <= 12 /\ d >= 1 /\ d <= DaysInMonth(y, m)
    THEN DaysBeforeYear(y) + DaysBeforeMonth(y, m) + d
    ELSE NoDate

\* date.fromordinal: year, month, day of an ordinal
YearOf(o) ==
    LET n0   == o - 1
        n400 == n0 \div 146097
        r400 == n0 % 146097
        n100 == r400 \div 36524
        r100 == r400 % 36524
        n4   == r100 \div 1461
        r4   == r100 % 1461
        n1   == r4 \div 365
        y    == n400 * 400 + 1 + n100 * 100 + n4 * 4 + n1
    IN  IF n1 = 4 \/ n100 = 4 THEN y - 1 ELSE y

MonthOf(o) ==
    LET y == YearOf(o)
        n == o - DaysBeforeYear(y)
    IN  CHOOSE m \in 1..12 :
            DaysBeforeMonth(y, m) < n /\ n <= DaysBeforeMonth(y, m) + DaysInMonth(y, m)

DayOf(o) == o - DaysBeforeYear(YearOf(o)) - DaysBeforeMonth(YearOf(o), MonthOf(o))

\* strptime directives: %Y is four digits, %m is 1..12 and %d is 1..31 in one
\* or two digits (%d also takes a space and a digit)
IsYearPart(p)  == Len(p) = 4 /\ AllDigits(p)
IsMonthPart(p) == Len(p) \in {1, 2} /\ AllDigits(p)
                    /\ DigitsVal(p, 0) >= 1 /\ DigitsVal(p, 0) <= 12
IsDayPart(p)   ==
    \/ Len(p) \in {1, 2} /\ AllDigits(p) /\ DigitsVal(p, 0) >= 1 /\ DigitsVal(p, 0) <= 31
    \/ Len(p) = 2 /\ p[1] = " " /\ p[2] \in Digits \ {"0"}

DayPartVal(p) == IF p[1] = " " THEN DigitVal(p[2]) ELSE DigitsVal(p, 0)

\* one datetime.strptime(s, fmt).date() with the year first or the day first
StrpYmd(s, sep) ==
    LET p == Split(s, sep)
    IN  IF Len(p) = 3 /\ IsYearPart(p[1]) /\ IsMonthPart(p[2]) /\ IsDayPart(p[3])
        THEN MkDate(DigitsVal(p[1], 0), DigitsVal(p[2], 0), DayPartVal(p[3]))
        ELSE NoDate

StrpDmy(s, sep) ==
    LET p == Split(s, sep)
    IN  IF Len(p) = 3 /\ IsDayPart(p[1]) /\ IsMonthPart(p[2]) /\ IsYearPart(p[3])
        THEN MkDate(DigitsVal(p[3], 0), DigitsVal(p[2], 0), DayPartVal(p[1]))
        ELSE NoDate

\* str_to_date: the four formats in the order of the source
str_to_date(t) ==
    LET s == Strip(t)
    IN  IF s = <<>> THEN NoDate
        ELSE IF StrpYmd(s, "-") # NoDate THEN StrpYmd(s, "-")
        ELSE IF StrpDmy(s, "-") # NoDate THEN StrpDmy(s, "-")
        ELSE IF StrpDmy(s, "/") # NoDate THEN StrpDmy(s, "/")
        ELSE StrpYmd(s, "/")

\* date_to_str: strftime("%Y-%m-%d")
date_to_str(o) ==
    Fmt04d(YearOf(o)) \o <<"-">> \o Fmt02d(MonthOf(o)) \o <<"-">> \o Fmt02d(DayOf(o))

DAYS == << <<"M","o","n">>, <<"T","u","e">>, <<"W","e","d">>, <<"T","h","u">>,
           <<"F","r","i">>, <<"S","a","t">>, <<"S","u","n">> >>

\* weekday_abbr: DAYS[d.weekday()], Monday is 0
weekday_abbr(o) == DAYS[((o + 6) % 7) + 1]

\* str(v) of a cell (str(None) is "None"; a float prints its decimals)
FloatText(h) ==
    NatToText(h \div 100) \o <<".">> \o
        (IF h % 10 = 0 THEN NatToText((h % 100) \div 10) ELSE ZerosTo(NatToText(h % 100), 2))

StrOf(c) ==
    CASE c.t = "str"  -> c.s
      [] c.t = "none" -> <<"N","o","n","e">>
      [] OTHER        -> FloatText(c.n)

(***************************************************************************)
(* DataFrames: the set of column names and the rows in display order; a    *)
(* row is a function from the column names to cells.                       *)
(***************************************************************************)
headers == <<"Date", "Day", "Start Time", "End Time", "Break (hh:mm)",
             "Work Hours", "Description of Work">>

BASE_COLUMNS == <<"Row ID">> \o headers

Range(f) == {f[i] : i \in DOMAIN f}

DataFrame(cols, rows) == [columns |-> cols, rows |-> rows]

\* a row of a frame built as {c: [""] * n for c in columns}
BlankRow(cols) == [c \in cols |-> Txt(<<>>)]

\* pd.DataFrame({c: [""] * add_rows for c in BASE_COLUMNS}): one row of it
SidebarRow == [c \in Range(BASE_COLUMNS) |-> Txt(<<>>)]

RECURSIVE Repeat(_, _)
Repeat(x, n) == IF n = 0 THEN <<>> ELSE <<x>> \o Repeat(x, n - 1)

\* str(uuid.uuid4()): the k-th identifier drawn in the session
Uuid(k) == <<"u">> \o NatToText(k)

\* the test of ensure_row_ids: isinstance(x, str) and x.strip()
HasId(c) == IsStr(c) /\ Strip(c.s) # <<>>

\* the rows of df that get a fresh uuid4: all of them when the column is
\* missing, else those whose Row ID is not a non-blank str
NeedsId(df, i) == ~("Row ID" \in df.columns /\ HasId(df.rows[i]["Row ID"]))

\* ensure_row_ids with a fresh uuid4 for every row, whatever its Row ID
ensure_row_ids_fresh(df, drawn) ==
    [df    |-> DataFrame(df.columns \cup {"Row ID"},
                  [i \in DOMAIN df.rows |->
                      [c \in (DOMAIN df.rows[i]) \cup {"Row ID"} |->
                          IF c = "Row ID" THEN Txt(Uuid(drawn + i))
                          ELSE df.rows[i][c]]]),
     drawn |-> drawn + Len(df.rows)]

\* ensure_row_ids: [df, drawn]; drawn counts the identifiers drawn so far
ensure_row_ids(df, drawn) ==
    [df    |-> DataFrame(df.columns \cup {"Row ID"},
                  [i \in DOMAIN df.rows |->
                      IF NeedsId(df, i)
                      THEN [c \in (DOMAIN df.rows[i]) \cup {"Row ID"} |->
                              IF c = "Row ID"
                              THEN Txt(Uuid(drawn + Cardinality({j \in 1..i : NeedsId(df, j)})))
                              ELSE df.rows[i][c]]
                      ELSE df.rows[i]]),
     drawn |-> drawn + Cardinality({j \in DOMAIN df.rows : NeedsId(df, j)})]

\* recalc_hours: [df, total]; the total is in hundredths
RowHours(row) ==
    calc_row_hours(hhmm_or_blank(row["Start Time"]),
                   hhmm_or_blank(row["End Time"]),
                   IF IsStr(row["Break (hh:mm)"]) \/ row["Break (hh:mm)"].t = "none"
                   THEN Txt(row["Break (hh:mm)"].s)
                   ELSE IF row["Break (hh:mm)"].n = 0 THEN Txt(<<>>)
                   ELSE Txt(StrOf(row["Break (hh:mm)"])))

RECURSIVE SumHours(_)
SumHours(rows) ==
    IF rows = <<>> THEN 0 ELSE Head(rows)["Work Hours"].n + SumHours(Tail(rows))

recalc_hours(df) ==
    LET rows == [i \in DOMAIN df.rows |->
                    [c \in (DOMAIN df.rows[i]) \cup {"Work Hours"} |->
                        IF c = "Work Hours" THEN Num(RowHours(df.rows[i]))
                        ELSE df.rows[i][c]]]
    IN  [df    |-> DataFrame(df.columns \cup {"Work Hours"}, rows),
         total |-> SumHours(rows)]

(***************************************************************************)
(* Autofill of new rows, by Row ID                                         *)
(***************************************************************************)
\* detect_new_ids.  (old_df.get("Row ID") or []) takes the truth value of a
\* Series, which pandas refuses (ValueError) whatever the Series holds; the
\* conditional expression skips it only for a frame without the column.
detect_new_ids(old_df, new_df) ==
    IF "Row ID" \in old_df.columns \/ "Row ID" \in new_df.columns
    THEN [raised |-> TRUE, ids |-> <<>>]
    ELSE [raised |-> FALSE, ids |-> <<>>]

\* get_last_non_empty_date
RECURSIVE get_last_non_empty_date(_)
get_last_non_empty_date(rows) ==
    IF rows = <<>> THEN NoDate
    ELSE LET dv == str_to_date(StrOf(rows[Len(rows)]["Date"]))
         IN  IF dv # NoDate THEN dv
             ELSE get_last_non_empty_date(SubSeq(rows, 1, Len(rows) - 1))

\* df.loc[rmask, col].astype(str).str.strip().eq("").all()
AllBlank(rows, rid, col) ==
    \A i \in DOMAIN rows :
        rows[i]["Row ID"] = Txt(rid) => Strip(StrOf(rows[i][col])) = <<>>

\* df[col] = v: the assignment without the row mask
SetEveryRow(rows, rid, col, v) ==
    [i \in DOMAIN rows |-> [rows[i] EXCEPT ![col] = Txt(v)]]

\* df.loc[rmask, col] = v
SetWhere(rows, rid, col, v) ==
    [i \in DOMAIN rows |->
        IF rows[i]["Row ID"] = Txt(rid) THEN [rows[i] EXCEPT ![col] = Txt(v)]
        ELSE rows[i]]

FillAlways(rows, rid, col, v) == SetWhere(rows, rid, col, v)

\* "apply only if blank": one guarded assignment of the loop body
FillIfBlank(rows, rid, col, v) ==
    IF AllBlank(rows, rid, col) THEN SetWhere(rows, rid, col, v) ELSE rows

\* one turn of the loop over id_list
FillOne(rows, rid, cur) ==
    LET r1 == FillIfBlank(rows, rid, "Date", date_to_str(cur))
        r2 == FillIfBlank(r1, rid, "Day", weekday_abbr(cur))
        r3 == FillIfBlank(r2, rid, "Start Time", <<"0","9",":","0","0">>)
    IN  FillIfBlank(r3, rid, "End Time", <<"1","8",":","0","0">>)

\* the loop over id_list from its idx-th element on; cur is the date of that
\* turn: ref_date for the first, a day more for each following one
RECURSIVE FillLoop(_, _, _, _)
FillLoop(rows, id_list, idx, cur) ==
    IF idx > Len(id_list) THEN rows
    ELSE FillLoop(FillOne(rows, id_list[idx], cur), id_list, idx + 1, cur + 1)

\* df itself, with the new rows left in
WithNew(rows, id_list) == rows

\* the rows of df whose Row ID is not in id_list
NonNew(rows, id_list) ==
    SelectSeq(rows, LAMBDA r : \A k \in DOMAIN id_list : r["Row ID"] # Txt(id_list[k]))

\* get_last_non_empty_date(non_new) or date.today()
RefDate(last_d, today) == IF last_d # NoDate THEN last_d ELSE today

\* a defaulter that continues from the last date of the whole grid and
\* overwrites what the listed rows hold
FillOneAlways(rows, rid, cur) ==
    FillAlways(FillAlways(FillAlways(FillAlways(rows, rid, "Date", date_to_str(cur)),
                                     rid, "Day", weekday_abbr(cur)),
                          rid, "Start Time", <<"0","9",":","0","0">>),
               rid, "End Time", <<"1","8",":","0","0">>)

RECURSIVE FillLoopAlways(_, _, _, _)
FillLoopAlways(rows, id_list, idx, cur) ==
    IF idx > Len(id_list) THEN rows
    ELSE FillLoopAlways(FillOneAlways(rows, id_list[idx], cur), id_list, idx + 1, cur + 1)

autofill_rows_by_ids_rolling(df, id_list, today) ==
    IF id_list = <<>> THEN df
    ELSE DataFrame(df.columns,
             FillLoopAlways(df.rows, id_list, 1,
                            RefDate(get_last_non_empty_date(df.rows), today) + 1))

\* autofill_rows_by_ids; today is date.today()
autofill_rows_by_ids(df, id_list, today) ==
    IF id_list = <<>> THEN df
    ELSE DataFrame(df.columns,
             FillLoop(df.rows, id_list, 1,
                      RefDate(get_last_non_empty_date(NonNew(df.rows, id_list)), today)))

(***************************************************************************)
(* Session state after init_session                                        *)
(***************************************************************************)
EmpKeys == {"Employee Name", "IC#", "Department", "Job Title",
            "Reporting Manager", "Review Month", "Year", "Date"}

init_employee == [k \in EmpKeys |-> <<>>]

InitRows == 10

NoFile == [kind |-> "none"]
NoCall == [f |-> "none"]
NoRun  == [op |-> "init"]

\* the session is not part of a run that applies one function on its own
SessionIdle ==
    /\ employee = init_employee
    /\ table = DataFrame({}, <<>>)
    /\ total_hours = 0
    /\ uuids = 0
    /\ up = NoFile
    /\ last = NoRun

(***************************************************************************)
(* calc_row_hours and parse_break_to_hours applied to sample texts         *)
(***************************************************************************)
TimeTexts ==
    { <<>>,
      <<"0","9",":","0","0">>, <<"1","8",":","0","0">>,
      <<"2","2",":","0","0">>, <<"0","6",":","0","0">>,
      <<"0","0",":","0","0">>, <<"9",":","3","0">>,
      <<"9","3","0">>, <<" ","9",":","0","5"," ">>,
      <<"a","b","c">>, <<"9","9",":","9","9">>, <<"9",":","7","5">>,
      <<"1",":","2",":","3">>, <<"1","2","3","4","5">>, <<"-","9","3","0">>,
      <<"-","1",":","3","0">> }

BreakTexts ==
    { <<>>, <<" ">>,
      <<"0","0",":","3","0">>, <<"0","0",":","0","0">>, <<"1",":","1","5">>,
      <<"b","a","d">>, <<"0",":","9","0">>, <<"1","0",":","0","0">>,
      <<"-","1",":","0","0">>, <<"1",":","-","3","0">>,
      <<"1",":","2",":","3">>, <<"3","0">>, <<"1",":","x">> }

CalcArgs(s, e, b) ==
    [f |-> "calc_row_hours", start |-> Txt(s), end |-> Txt(e), brk |-> Txt(b),
     done |-> FALSE, hours |-> 0, brkmin |-> 0]

CalcInit ==
    /\ SessionIdle
    /\ call \in {CalcArgs(s, e, b) : s \in TimeTexts, e \in TimeTexts, b \in BreakTexts}

\* hours = calc_row_hours(start, end, brk); brkmin = parse_break_to_hours(brk)
CalcApply ==
    /\ ~call.done
    /\ call' = [call EXCEPT !.done = TRUE,
                            !.hours = calc_row_hours(call.start, call.end, call.brk),
                            !.brkmin = parse_break_to_hours(call.brk)]
    /\ UNCHANGED <<employee, table, total_hours, uuids, up, last>>

\* the next arguments, one changed at a time
CalcPick ==
    /\ call.done
    /\ \/ \E s \in TimeTexts : call' = CalcArgs(s, call.end.s, call.brk.s)
       \/ \E e \in TimeTexts : call' = CalcArgs(call.start.s, e, call.brk.s)
       \/ \E b \in BreakTexts : call' = CalcArgs(call.start.s, call.end.s, b)
    /\ UNCHANGED <<employee, table, total_hours, uuids, up, last>>

CalcNext == CalcApply \/ CalcPick

SpecCalc == CalcInit /\ [][CalcNext]_vars

C5_Net ==
    LET S  == to_time_obj(call.start).hour * 60 + to_time_obj(call.start).minute
        E  == to_time_obj(call.end).hour * 60 + to_time_obj(call.end).minute
        E1 == IF E < S THEN E + 1440 ELSE E
        d  == (E1 - S) - call.brkmin
    IN  IF d > 0 THEN d ELSE 0

\* C5: when start and end parse to times of day S and E (minutes since
\* midnight), calc_row_hours is max(0, (E' - S)/60 - parseBreak) rounded to two
\* decimals, E' being E + 1440 exactly when E < S (so end = start gives 0);
\* 09:00-18:00 with break 00:30 is 8.5 and 22:00-06:00 with break 00:00 is 8.0.
C5_HoursFormula ==
    call.f = "calc_row_hours" /\ call.done =>
        /\ (to_time_obj(call.start).ok /\ to_time_obj(call.end).ok) =>
              \* hours/100 is the two-decimal value nearest to C5_Net/60
              /\ 3 * call.hours - 5 * C5_Net \in {-1, 0, 1}
              /\ (call.start = call.end /\ call.brkmin = 0) => call.hours = 0
        /\ ( /\ call.start = Txt(<<"0","9",":","0","0">>)
             /\ call.end = Txt(<<"1","8",":","0","0">>)
             /\ call.brk = Txt(<<"0","0",":","3","0">>) ) => call.hours = 850
        /\ ( /\ call.start = Txt(<<"2","2",":","0","0">>)
             /\ call.end = Txt(<<"0","6",":","0","0">>)
             /\ call.brk = Txt(<<"0","0",":","0","0">>) ) => call.hours = 800

C5_Witness ==
    /\ call.f = "calc_row_hours" /\ call.done
    /\ call.start = Txt(<<"2","2",":","0","0">>)
    /\ call.end = Txt(<<"0","6",":","0","0">>)
    /\ call.brk = Txt(<<"0","0",":","0","0">>)
    /\ call.hours = 800

C6_Colons(s) == Cardinality({i \in DOMAIN s : s[i] = ":"})

C6_TwoInts(s) ==
    /\ C6_Colons(s) = 1
    /\ \E i \in DOMAIN s :
          /\ s[i] = ":"
          /\ IsInt(SubSeq(s, 1, i - 1))
          /\ IsInt(SubSeq(s, i + 1, Len(s)))

\* C6: for every start, end and break text calc_row_hours is >= 0, and is 0
\* whenever start or end does not parse ("", "abc", "99:99", ...);
\* parse_break_to_hours is 0 for blank text and for text that is not two
\* integers around one ':', "1:15" is 1.25 hours.
C6_ParseDegradation ==
    call.f = "calc_row_hours" /\ call.done =>
        /\ call.hours >= 0
        /\ (~to_time_obj(call.start).ok \/ ~to_time_obj(call.end).ok) => call.hours = 0
        /\ call.start.s \in {<<>>, <<"a","b","c">>, <<"9","9",":","9","9">>} => call.hours = 0
        /\ call.end.s \in {<<>>, <<"a","b","c">>, <<"9","9",":","9","9">>} => call.hours = 0
        /\ call.brkmin >= 0
        /\ ~C6_TwoInts(Strip(call.brk.s)) => call.brkmin = 0
        /\ call.brk.s = <<"1",":","1","5">> => call.brkmin = 75
        /\ call.brk.s \in {<<>>, <<"b","a","d">>} => call.brkmin = 0

C6_Witness ==
    /\ call.f = "calc_row_hours" /\ call.done
    /\ call.start = Txt(<<"0","9",":","0","0">>)
    /\ call.end = Txt(<<"9","9",":","9","9">>)
    /\ call.brk = Txt(<<"b","a","d">>)
    /\ call.hours = 0 /\ call.brkmin = 0

\* the zero-padded HH:MM form of a time of day
C19_Padded(t) == Txt(Fmt02d(t.hour) \o <<":">> \o Fmt02d(t.minute))

C19_Normalised(c) ==
    IF to_time_obj(c).ok THEN hhmm_or_blank(c) = C19_Padded(to_time_obj(c))
    ELSE hhmm_or_blank(c) = c

\* C19: for the start and the end text of every call made, hhmm_or_blank
\* gives the zero-padded HH:MM form when to_time_obj gives a time of day,
\* and the text itself, unchanged, when to_time_obj gives None.
C19_Passthrough ==
    (call.f = "calc_row_hours" /\ call.done) =>
        (C19_Normalised(call.start) /\ C19_Normalised(call.end))

(***************************************************************************)
(* autofill_rows_by_ids applied to sample grids and id lists               *)
(***************************************************************************)
MaxFillRows == 3
MaxIds == 2

MkRow(rid, d, dy, st, en, br, wh, ds) ==
    [c \in Range(BASE_COLUMNS) |->
        CASE c = "Row ID"        -> rid
          [] c = "Date"          -> d
          [] c = "Day"           -> dy
          [] c = "Start Time"    -> st
          [] c = "End Time"      -> en
          [] c = "Break (hh:mm)" -> br
          [] c = "Work Hours"    -> wh
          [] OTHER               -> ds]

T_0930  == <<"9",":","3","0">>
T_1700  == <<"1","7",":","0","0">>
T_0900  == <<"0","9",":","0","0">>
T_1800  == <<"1","8",":","0","0">>
T_soon  == <<"s","o","o","n">>
T_Wed   == <<"W","e","d">>
T_Jan10 == <<"2","0","2","4","-","0","1","-","1","0">>
T_Feb28 == <<"2","0","2","4","-","0","2","-","2","8">>

\* rows as the sidebar appends them, as the user typed them, and as the
\* grid widget adds them (missing values)
FillRowSamples(rid) ==
    { MkRow(rid, Txt(<<>>), Txt(<<>>), Txt(<<>>), Txt(<<>>), Txt(<<>>), Txt(<<>>), Txt(<<>>)),
      MkRow(rid, Txt(T_Jan10), Txt(T_Wed), Txt(T_0930), Txt(T_1700),
            Txt(<<"0","0",":","3","0">>), Num(700), Txt(<<"w">>)),
      MkRow(rid, Txt(T_soon), Txt(<<>>), Txt(T_0930), Txt(<<>>), Txt(<<>>), Num(0), Txt(<<>>)),
      MkRow(rid, Missing, Missing, Missing, Missing, Missing, Missing, Missing),
      MkRow(rid, Txt(T_Feb28), Txt(<<>>), Txt(<<" ">>), Txt(<<>>), Txt(<<>>), Num(0), Txt(<<>>)) }

FillGrids ==
    UNION { { g \in [1..n -> UNION {FillRowSamples(Txt(Uuid(i))) : i \in 1..n}] :
                \A i \in 1..n : g[i]["Row ID"] = Txt(Uuid(i)) } : n \in 1..MaxFillRows }

\* id lists: the ids of the grid and one id that no row carries
FillIds == {Uuid(i) : i \in 1..(MaxFillRows + 1)}

\* the id lists: distinct ids, as a set difference gives them, in any order
IdLists ==
    UNION { { l \in [1..n -> FillIds] : \A i, j \in 1..n : i # j => l[i] # l[j] } :
            n \in 0..MaxIds }

TodaySet == {MkDate(2024, 2, 29), MkDate(2023, 12, 31)}

FillInit ==
    /\ SessionIdle
    /\ \E g \in FillGrids, t \in TodaySet :
          call = [f |-> "autofill_rows_by_ids",
                  arg |-> DataFrame(Range(BASE_COLUMNS), g),
                  df |-> DataFrame(Range(BASE_COLUMNS), g),
                  id_list |-> <<>>, today |-> t, applied |-> FALSE]

\* df = autofill_rows_by_ids(df, id_list); arg keeps the argument
FillCall ==
    /\ ~call.applied
    /\ \E ids \in IdLists :
          call' = [call EXCEPT !.df = autofill_rows_by_ids(call.df, ids, call.today),
                               !.id_list = ids,
                               !.applied = TRUE]
    /\ UNCHANGED <<employee, table, total_hours, uuids, up, last>>

\* the same call once more, on the grid the last call returned
FillAgain ==
    /\ call.applied
    /\ call' = [call EXCEPT !.arg = call.df,
                            !.df = autofill_rows_by_ids(call.df, call.id_list, call.today)]
    /\ UNCHANGED <<employee, table, total_hours, uuids, up, last>>

FillNext == FillCall \/ FillAgain

SpecFill == FillInit /\ [][FillNext]_vars

DefaultedCols == {"Date", "Day", "Start Time", "End Time"}

C1_NonBlank(c) == c.t = "str" /\ \E i \in DOMAIN c.s : c.s[i] # " "

\* C1: a Date, Day, Start Time or End Time that holds a non-blank value when
\* autofill_rows_by_ids is called holds the same value afterwards, for any id
\* list and in every one of any number of calls.
C1_NonDestructive ==
    [][ /\ Len(call'.df.rows) = Len(call.df.rows)
        /\ \A i \in DOMAIN call.df.rows : \A col \in DefaultedCols :
              C1_NonBlank(call.df.rows[i][col]) =>
                  call'.df.rows[i][col] = call.df.rows[i][col] ]_vars

C1_Witness ==
    /\ call.f = "autofill_rows_by_ids" /\ call.applied
    /\ \E i \in DOMAIN call.df.rows :
          /\ \E k \in DOMAIN call.id_list : call.df.rows[i]["Row ID"] = Txt(call.id_list[k])
          /\ call.df.rows[i]["Date"] = Txt(T_soon)
          /\ call.df.rows[i]["Start Time"] = Txt(T_0930)
          /\ call.df.rows[i]["End Time"] = Txt(T_1800)

C3_Appended(k) == Len(call.arg.rows) - Len(call.id_list) + k

C3_LastDate ==
    get_last_non_empty_date(SubSeq(call.arg.rows, 1, Len(call.arg.rows) - Len(call.id_list)))

C3_Case ==
    /\ call.f = "autofill_rows_by_ids" /\ call.applied
    /\ call.id_list # <<>>
    /\ Len(call.id_list) < Len(call.arg.rows)
    /\ \A k \in DOMAIN call.id_list :
          call.arg.rows[C3_Appended(k)] =
              [SidebarRow EXCEPT !["Row ID"] = Txt(call.id_list[k])]
    /\ C3_LastDate # NoDate

\* C3: when the rows named by the id list are blank rows appended at the end
\* of the grid, listed in display order, and the rows before them hold a
\* last parseable Date D, the k-th appended row is dated D + k days and its
\* Day is the weekday abbreviation of that date.
C3_DateSequencing ==
    C3_Case =>
        \A k \in DOMAIN call.id_list :
            /\ call.df.rows[C3_Appended(k)]["Date"] = Txt(date_to_str(C3_LastDate + k))
            /\ call.df.rows[C3_Appended(k)]["Day"] = Txt(weekday_abbr(C3_LastDate + k))

\* a field the user did not type: empty text in a row the sidebar appended,
\* a missing value in a row the grid widget added
C12_Untyped(c) == c.t = "none" \/ (c.t = "str" /\ Strip(c.s) = <<>>)

\* the candidate date of the k-th id of the list
C12_Candidate(k) ==
    RefDate(get_last_non_empty_date(NonNew(call.arg.rows, call.id_list)), call.today) + (k - 1)

\* C12: after autofill_rows_by_ids every row whose id is in the list has, in
\* each of Date, Day, Start Time and End Time that was empty text or a
\* missing value, the default: its candidate date, a Day, "09:00", "18:00".
C12_NewRowsFilled ==
    (call.f = "autofill_rows_by_ids" /\ call.applied) =>
        \A i \in DOMAIN call.arg.rows : \A k \in DOMAIN call.id_list :
            call.arg.rows[i]["Row ID"] = Txt(call.id_list[k]) =>
                /\ C12_Untyped(call.arg.rows[i]["Date"]) =>
                      call.df.rows[i]["Date"] = Txt(date_to_str(C12_Candidate(k)))
                /\ C12_Untyped(call.arg.rows[i]["Day"]) =>
                      ~C12_Untyped(call.df.rows[i]["Day"])
                /\ C12_Untyped(call.arg.rows[i]["Start Time"]) =>
                      call.df.rows[i]["Start Time"] = Txt(T_0900)
                /\ C12_Untyped(call.arg.rows[i]["End Time"]) =>
                      call.df.rows[i]["End Time"] = Txt(T_1800)

C14_IsNew(i) ==
    \E k \in DOMAIN call.id_list : call.arg.rows[i]["Row ID"] = Txt(call.id_list[k])

\* the number of new rows above row i in display order
C14_NewAbove(i) == Cardinality({j \in 1..(i - 1) : C14_IsNew(j)})

C14_RefDate ==
    RefDate(get_last_non_empty_date(NonNew(call.arg.rows, call.id_list)), call.today)

\* C14: after autofill_rows_by_ids, with the new ids in the order the set
\* difference of detect_new_ids gives them, a new row whose Date was empty
\* text is dated the reference date plus the number of new rows above it in
\* display order.
C14_DisplayOrder ==
    (call.f = "autofill_rows_by_ids" /\ call.applied) =>
        \A i \in DOMAIN call.arg.rows :
            (C14_IsNew(i) /\ call.arg.rows[i]["Date"] = Txt(<<>>)) =>
                call.df.rows[i]["Date"] = Txt(date_to_str(C14_RefDate + C14_NewAbove(i)))

C16_Listed(row, id_list) ==
    \E k \in DOMAIN id_list : row["Row ID"] = Txt(id_list[k])

\* C16: a call of autofill_rows_by_ids returns the same columns and the
\* same number of rows in the same order, with the Row ID, Break, Work
\* Hours and Description of every row as they were, and with every row
\* whose id is not in the list unchanged in every field (a blank Date, Start
\* Time or End Time of such a row stays blank).
C16_DefaulterFrame ==
    [][ call'.applied =>
          /\ call'.df.columns = call.df.columns
          /\ Len(call'.df.rows) = Len(call.df.rows)
          /\ \A i \in DOMAIN call.df.rows :
                /\ \A c \in Range(BASE_COLUMNS) \ DefaultedCols :
                       call'.df.rows[i][c] = call.df.rows[i][c]
                /\ ~C16_Listed(call.df.rows[i], call'.id_list) =>
                       call'.df.rows[i] = call.df.rows[i] ]_vars

\* a call that filled a listed row and left a blank row that is not listed
C16_Witness ==
    /\ call.f = "autofill_rows_by_ids" /\ call.applied
    /\ call.arg # call.df
    /\ \E i \in DOMAIN call.df.rows :
          /\ ~C16_Listed(call.arg.rows[i], call.id_list)
          /\ call.df.rows[i]["Date"] = Txt(<<>>)
          /\ call.df.rows[i]["Start Time"] = Txt(<<>>)
          /\ call.df.rows[i]["End Time"] = Txt(<<>>)

\* C17: autofill_rows_by_ids applied to the grid it returned, with the same
\* id list, returns that grid: the second call changes no field of any row.
C17_Idempotent ==
    [][ (call.applied /\ call'.applied) =>
          /\ call'.id_list = call.id_list
          /\ call'.arg = call.df
          /\ call'.df = call.df ]_vars

\* the state after the second call, on a grid in which the first call had
\* filled a listed row
C17_Witness ==
    /\ call.f = "autofill_rows_by_ids" /\ call.applied
    /\ call.arg = call.df
    /\ Len(call.id_list) = MaxIds
    /\ \E i \in DOMAIN call.df.rows :
          /\ C16_Listed(call.df.rows[i], call.id_list)
          /\ call.df.rows[i]["Date"] = Txt(date_to_str(call.today + 1))
          /\ call.df.rows[i]["Start Time"] = Txt(T_0900)
          /\ call.df.rows[i]["End Time"] = Txt(T_1800)

\* the rows that are not listed and whose Date parses
C18_Anchors ==
    {i \in DOMAIN call.arg.rows :
        /\ ~C16_Listed(call.arg.rows[i], call.id_list)
        /\ str_to_date(StrOf(call.arg.rows[i]["Date"])) # NoDate}

C18_LastAnchor == CHOOSE i \in C18_Anchors : \A j \in C18_Anchors : j <= i

C18_Reference ==
    IF C18_Anchors = {} THEN call.today
    ELSE str_to_date(StrOf(call.arg.rows[C18_LastAnchor]["Date"]))

\* C18: the dates autofill_rows_by_ids writes count from the Date of the
\* lowest row in display order that is not listed and whose Date parses, or
\* from today when there is no such row: the row of the k-th listed id, if
\* its Date was empty text, is dated that reference plus k - 1 days.
C18_ReferenceDate ==
    (call.f = "autofill_rows_by_ids" /\ call.applied) =>
        \A i \in DOMAIN call.arg.rows : \A k \in DOMAIN call.id_list :
            (/\ call.arg.rows[i]["Row ID"] = Txt(call.id_list[k])
             /\ call.arg.rows[i]["Date"] = Txt(<<>>)) =>
                call.df.rows[i]["Date"] = Txt(date_to_str(C18_Reference + (k - 1)))

\* the later date is higher up: the new row continues from the lower one
C18_Witness ==
    /\ call.f = "autofill_rows_by_ids" /\ call.applied
    /\ Len(call.arg.rows) = 3
    /\ call.id_list = <<Uuid(3)>>
    /\ call.arg.rows[1]["Date"] = Txt(T_Feb28)
    /\ call.arg.rows[2]["Date"] = Txt(T_Jan10)
    /\ call.arg.rows[3]["Date"] = Txt(<<>>)
    /\ call.df.rows[3]["Date"] = Txt(T_Jan10)

(***************************************************************************)
(* detect_new_ids applied to a previous and a current grid                 *)
(***************************************************************************)
DiffRows == 5
DiffNew == 2

IdRow(k) == MkRow(Txt(Uuid(k)), Txt(<<>>), Txt(<<>>), Txt(<<>>), Txt(<<>>),
                  Txt(<<>>), Num(0), Txt(<<>>))

\* a row of a frame that has no Row ID column
NoIdRow == [c \in Range(headers) |-> IF c = "Work Hours" THEN Num(0) ELSE Txt(<<>>)]

\* R1..R5
PrevGrid == [i \in 1..DiffRows |-> IdRow(i)]

RemoveAt(seq, i) == SubSeq(seq, 1, i - 1) \o SubSeq(seq, i + 1, Len(seq))
InsertAt(seq, i, x) == SubSeq(seq, 1, i - 1) \o <<x>> \o SubSeq(seq, i, Len(seq))
Swap(seq, i, j) == [seq EXCEPT ![i] = seq[j], ![j] = seq[i]]

DiffInit ==
    /\ SessionIdle
    /\ call = [f |-> "detect_new_ids",
               old_df |-> DataFrame(Range(BASE_COLUMNS), PrevGrid),
               new_df |-> DataFrame(Range(BASE_COLUMNS), PrevGrid),
               fresh |-> 0, applied |-> FALSE, raised |-> FALSE, ids |-> <<>>]

DiffIdle == UNCHANGED <<employee, table, total_hours, uuids, up, last>>

\* the user deletes a row of the current grid
DiffDelete ==
    /\ ~call.applied
    /\ \E i \in DOMAIN call.new_df.rows :
          call' = [call EXCEPT !.new_df.rows = RemoveAt(call.new_df.rows, i)]
    /\ DiffIdle

\* a row with a new id is inserted anywhere in the current grid
DiffInsert ==
    /\ ~call.applied
    /\ call.fresh < DiffNew
    /\ \E i \in 1..(Len(call.new_df.rows) + 1) :
          call' = [call EXCEPT
                     !.new_df.rows = InsertAt(call.new_df.rows, i,
                                              IdRow(DiffRows + call.fresh + 1)),
                     !.fresh = call.fresh + 1]
    /\ DiffIdle

\* two neighbouring rows of the current grid change places
DiffReorder ==
    /\ ~call.applied
    /\ \E i \in 1..(Len(call.new_df.rows) - 1) :
          call' = [call EXCEPT !.new_df.rows = Swap(call.new_df.rows, i, i + 1)]
    /\ DiffIdle

\* a frame without the Row ID column (a grid that ensure_row_ids never saw)
DiffDropColumn ==
    /\ ~call.applied
    /\ "Row ID" \in call.old_df.columns
    /\ \/ call' = [call EXCEPT
                     !.old_df = DataFrame(Range(headers),
                                          [i \in DOMAIN call.old_df.rows |-> NoIdRow])]
       \/ call' = [call EXCEPT
                     !.old_df = DataFrame(Range(headers),
                                          [i \in DOMAIN call.old_df.rows |-> NoIdRow]),
                     !.new_df = DataFrame(Range(headers),
                                          [i \in DOMAIN call.new_df.rows |-> NoIdRow])]
    /\ DiffIdle

\* new_ids = detect_new_ids(old_df, new_df)
DiffCall ==
    /\ ~call.applied
    /\ LET d == detect_new_ids(call.old_df, call.new_df)
       IN  call' = [call EXCEPT !.applied = TRUE, !.raised = d.raised, !.ids = d.ids]
    /\ DiffIdle

DiffNext == DiffDelete \/ DiffInsert \/ DiffReorder \/ DiffDropColumn \/ DiffCall

SpecDiff == DiffInit /\ [][DiffNext]_vars

IdsOf(df) == {df.rows[i]["Row ID"].s : i \in DOMAIN df.rows}

\* C2: for a previous and a current grid that both carry a Row ID column,
\* detect_new_ids returns, without raising, exactly the ids of the current grid
\* that the previous grid does not hold, each once, wherever the new rows were
\* inserted and whatever was deleted or reordered.
C2_DiffNewIds ==
    ( /\ call.f = "detect_new_ids" /\ call.applied
      /\ "Row ID" \in call.old_df.columns
      /\ "Row ID" \in call.new_df.columns ) =>
        /\ ~call.raised
        /\ Range(call.ids) = IdsOf(call.new_df) \ IdsOf(call.old_df)
        /\ Len(call.ids) = Cardinality(Range(call.ids))

(***************************************************************************)
(* Employee master (timesheet_webui_autofill.py)                           *)
(***************************************************************************)
REQUIRED_COLS == <<"Employee Name", "IC#", "Department", "Job Title", "Reporting Manager">>

MasterKeys == {"IC#", "Department", "Job Title", "Reporting Manager"}

MasterRow(name, ic, dept, title, rm) ==
    [c \in Range(REQUIRED_COLS) |->
        CASE c = "Employee Name" -> name
          [] c = "IC#"           -> ic
          [] c = "Department"    -> dept
          [] c = "Job Title"     -> title
          [] OTHER               -> rm]

T_Sarath   == <<"S","a","r","a","t","h"," ","G","o","s","h">>
T_Shri     == <<"S","h","r","i"," ","S","h","a","i","l","e","s","h">>
T_Zed      == <<"Z","e","d">>

\* the last Reporting Manager is one character, an em dash
BUILTIN_EMPLOYEES ==
    << MasterRow(T_Sarath, <<"S","1","2","3","4","5","6","7","A">>,
                 <<"E","n","g","i","n","e","e","r","i","n","g">>,
                 <<"R","e","m","o","t","e"," ","E","n","g","i","n","e","e","r">>,
                 <<"S","h","a","i","l","e","s","h">>),
       MasterRow(T_Shri, <<"S","7","6","5","4","3","2","1","B">>,
                 <<"O","p","e","r","a","t","i","o","n","s">>,
                 <<"M","a","n","a","g","e","r">>,
                 <<"EMDASH">>) >>

\* normalize_master on a frame that has the five columns: rows with a blank
\* name are dropped, of rows with the same name the last one is kept
normalize_master(rows) ==
    LET Named(r) == Strip(r["Employee Name"]) # <<>>
        named    == SelectSeq(rows, Named)
        IsLast(i) == \A j \in (i + 1)..Len(named) :
                        named[j]["Employee Name"] # named[i]["Employee Name"]
        keep     == {i \in DOMAIN named : IsLast(i)}
    IN  [rows |-> named, keep |-> keep]

\* master_to_dict: a later row of the same stripped name replaces an earlier one
master_to_dict(nm) ==
    LET names == {Strip(nm.rows[i]["Employee Name"]) : i \in nm.keep}
        LastOf(name) == CHOOSE i \in nm.keep :
                            /\ Strip(nm.rows[i]["Employee Name"]) = name
                            /\ \A j \in nm.keep :
                                  Strip(nm.rows[j]["Employee Name"]) = name => j <= i
    IN  [name \in names |-> [k \in MasterKeys |-> nm.rows[LastOf(name)][k]]]

\* st.session_state.employee_master_dict after init_session
employee_master_dict == master_to_dict(normalize_master(BUILTIN_EMPLOYEES))

\* mergeInto(employeeInfo, entry, overwrite) of the directory resolver
mergeInto(employeeInfo, entry, overwrite) ==
    [k \in DOMAIN employeeInfo |->
        IF k \in MasterKeys /\ (overwrite \/ Strip(employeeInfo[k]) = <<>>)
        THEN entry[k] ELSE employeeInfo[k]]

employee_name_change_overwrite(emp, sel, manual) ==
    LET final_name == IF Strip(manual) # <<>> THEN Strip(manual) ELSE Strip(sel)
    IN  IF final_name = emp["Employee Name"] THEN emp
        ELSE IF final_name \in DOMAIN employee_master_dict
             THEN [k \in DOMAIN emp |->
                      IF k = "Employee Name" THEN final_name
                      ELSE IF k \in MasterKeys THEN employee_master_dict[final_name][k]
                      ELSE emp[k]]
             ELSE [emp EXCEPT !["Employee Name"] = final_name]

\* the employee-name widgets and the master merge: sel is the selectbox
\* value, manual the "Or type a new name" text
employee_name_change(emp, sel, manual) ==
    LET final_name == IF Strip(manual) # <<>> THEN Strip(manual) ELSE Strip(sel)
    IN  IF final_name = emp["Employee Name"] THEN emp
        ELSE IF final_name \in DOMAIN employee_master_dict
             THEN [k \in DOMAIN emp |->
                      IF k = "Employee Name" THEN final_name
                      ELSE IF k \in MasterKeys /\ Strip(emp[k]) = <<>>
                           THEN employee_master_dict[final_name][k]
                      ELSE emp[k]]
             ELSE [emp EXCEPT !["Employee Name"] = final_name]

(***************************************************************************)
(* The grid widget.  st.data_editor returns the frame it was given with    *)
(* the user's edit: a cell typed, a row added at the end (its untyped      *)
(* cells are missing values), a row deleted.                               *)
(***************************************************************************)
NoEdit == [kind |-> "none", row |-> 0, col |-> "", val |-> Missing]

data_editor(df, edit) ==
    CASE edit.kind = "cell" ->
            DataFrame(df.columns, [df.rows EXCEPT ![edit.row][edit.col] = edit.val])
      [] edit.kind = "add" ->
            DataFrame(df.columns,
                      Append(df.rows, [c \in df.columns |->
                                          IF c = edit.col THEN edit.val ELSE Missing]))
      [] edit.kind = "delete" ->
            DataFrame(df.columns, RemoveAt(df.rows, edit.row))
      [] OTHER -> df

(***************************************************************************)
(* timesheet_webui_autofill.py: one run of the script per user interaction *)
(***************************************************************************)
MaxRows == 13
MaxAdd == 3

AppToday == MkDate(2024, 2, 29)

\* init_session: ten blank rows, Work Hours 0.0, a uuid4 each
init_table_autofill ==
    DataFrame(Range(BASE_COLUMNS),
              [i \in 1..InitRows |->
                  [c \in Range(BASE_COLUMNS) |->
                      CASE c = "Row ID"     -> Txt(Uuid(i))
                        [] c = "Work Hours" -> Num(0)
                        [] OTHER            -> Txt(<<>>)]])

\* pd.concat([ensure_row_ids(before_df), ensure_row_ids(extra)])
ConcatEnsured(before, extra) ==
    [df    |-> DataFrame(before.df.columns \cup extra.df.columns,
                         before.df.rows \o extra.df.rows),
     drawn |-> before.drawn]

\* new_ids = detect_new_ids(before_df, st.session_state.table), and on
\* from there.  An exception ends the script run; what was stored in
\* st.session_state before it stays.
AppendNewIds(stored, new_ids, today) ==
    IF new_ids.raised
    THEN [raised |-> TRUE, table |-> stored.df, drawn |-> stored.drawn]
    ELSE [raised |-> FALSE,
          table  |-> autofill_rows_by_ids(stored.df, new_ids.ids, today),
          drawn  |-> stored.drawn]

AppendStored(before_df, stored, today) ==
    AppendNewIds(stored, detect_new_ids(before_df, stored.df), today)

AppendExtra(before_df, extra, today) ==
    AppendStored(before_df,
                 ConcatEnsured(ensure_row_ids(before_df, extra.drawn), extra), today)

\* the "Append Rows" handler with add_rows = n
AppendRowsAutofill(tbl, drawn, n, today) ==
    AppendExtra(tbl, ensure_row_ids(DataFrame(Range(BASE_COLUMNS),
                                              Repeat(SidebarRow, n)), drawn),
                today)

\* "Derive Day from Date if Day blank", for all rows
derive_day(df) ==
    DataFrame(df.columns,
        [i \in DOMAIN df.rows |->
            IF /\ Strip(StrOf(df.rows[i]["Day"])) = <<>>
               /\ str_to_date(StrOf(df.rows[i]["Date"])) # NoDate
            THEN [df.rows[i] EXCEPT
                    !["Day"] = Txt(weekday_abbr(str_to_date(StrOf(df.rows[i]["Date"]))))]
            ELSE df.rows[i]])

\* "Recalc & persist"
WorkLogPersist(calc, drawn) ==
    [raised |-> FALSE, table |-> calc.df, total |-> calc.total, drawn |-> drawn]

\* "if new_ids: edited = autofill_rows_by_ids(edited, new_ids)"
WorkLogFill(edited_df, ids, today) ==
    IF ids # <<>> THEN autofill_rows_by_ids(edited_df, ids, today) ELSE edited_df

\* from new_ids = detect_new_ids(old_df, edited) on.  An exception ends the
\* script run with st.session_state as it was; identifiers drawn for a grid
\* that is then dropped are not counted.
WorkLogNewIds(tbl, total, drawn, edited, new_ids, today) ==
    IF new_ids.raised
    THEN [raised |-> TRUE, table |-> tbl, total |-> total, drawn |-> drawn]
    ELSE WorkLogPersist(recalc_hours(derive_day(WorkLogFill(edited.df, new_ids.ids, today))),
                        edited.drawn)

WorkLogEdited(tbl, total, drawn, old_df, edited, today) ==
    WorkLogNewIds(tbl, total, drawn, edited, detect_new_ids(old_df, edited.df), today)

WorkLogBase(tbl, total, drawn, base, edit, today) ==
    WorkLogEdited(tbl, total, drawn, base.df,
                  ensure_row_ids(data_editor(base.df, edit), base.drawn), today)

\* the Work Log section: ids, the grid, new rows, autofill, Day, hours, persist
WorkLogAutofill(tbl, total, drawn, edit, today) ==
    WorkLogBase(tbl, total, drawn, ensure_row_ids(tbl, drawn), edit, today)

AutoInit ==
    /\ employee = init_employee
    /\ table = init_table_autofill
    /\ total_hours = 0
    /\ uuids = InitRows
    /\ up = NoFile
    /\ last = NoRun
    /\ call = NoCall

\* sidebar "Append Rows" with add_rows = n, then the rest of the script
AutoAppend ==
    \E n \in 1..MaxAdd :
        /\ Len(table.rows) + n <= MaxRows
        /\ \E a \in {AppendRowsAutofill(table, uuids, n, AppToday)} :
           \E w \in {WorkLogAutofill(a.table, total_hours, a.drawn, NoEdit, AppToday)} :
               /\ table' = IF a.raised THEN a.table ELSE w.table
               /\ total_hours' = IF a.raised THEN total_hours ELSE w.total
               /\ uuids' = IF a.raised THEN a.drawn ELSE w.drawn
               /\ last' = [op |-> "append", raised |-> a.raised \/ w.raised,
                           n |-> n, before |-> Len(table.rows)]
        /\ UNCHANGED <<employee, up, call>>

\* sidebar "Export to Excel": recalc_hours is stored, the workbook is
\* offered for download, then the rest of the script
AutoExport ==
    /\ \E r \in {recalc_hours(table)} :
       \E w \in {WorkLogAutofill(r.df, r.total, uuids, NoEdit, AppToday)} :
           /\ table' = w.table
           /\ total_hours' = w.total
           /\ uuids' = w.drawn
           /\ last' = [op |-> "export", raised |-> w.raised, n |-> 0,
                       before |-> Len(table.rows)]
    /\ UNCHANGED <<employee, up, call>>

NameChoices == {<<>>, T_Sarath, T_Shri}
ManualNames == {<<>>, T_Zed, <<" ">> \o T_Shri}

\* a name picked in the selectbox or typed, then the rest of the script
AutoName ==
    \E sel \in NameChoices, manual \in ManualNames :
        /\ employee' = employee_name_change(employee, sel, manual)
        /\ \E w \in {WorkLogAutofill(table, total_hours, uuids, NoEdit, AppToday)} :
               /\ table' = w.table
               /\ total_hours' = w.total
               /\ uuids' = w.drawn
               /\ last' = [op |-> "name", raised |-> w.raised, n |-> 0,
                           before |-> Len(table.rows)]
        /\ UNCHANGED <<up, call>>

FormKeys == {"IC#", "Year"}
FormTexts == {<<>>, <<"X">>, <<" ">>}

\* a text typed in one of the employee text inputs; the name widgets return
\* the current name
AutoForm ==
    \E k \in FormKeys, v \in FormTexts :
        /\ employee' = [employee_name_change(employee, <<>>, employee["Employee Name"])
                          EXCEPT ![k] = v]
        /\ \E w \in {WorkLogAutofill(table, total_hours, uuids, NoEdit, AppToday)} :
               /\ table' = w.table
               /\ total_hours' = w.total
               /\ uuids' = w.drawn
               /\ last' = [op |-> "form", raised |-> w.raised, n |-> 0,
                           before |-> Len(table.rows)]
        /\ UNCHANGED <<up, call>>

AutoGridEdits ==
    { [kind |-> "cell", row |-> 1, col |-> "Date", val |-> Txt(T_Jan10)],
      [kind |-> "cell", row |-> 1, col |-> "Start Time", val |-> Txt(T_0930)],
      [kind |-> "add", row |-> 0, col |-> "", val |-> Missing],
      [kind |-> "add", row |-> 0, col |-> "Date", val |-> Txt(T_Jan10)],
      [kind |-> "delete", row |-> 1, col |-> "", val |-> Missing] }

\* an edit in the grid widget
AutoGrid ==
    \E edit \in AutoGridEdits :
        /\ \E w \in {WorkLogAutofill(table, total_hours, uuids, edit, AppToday)} :
               /\ table' = w.table
               /\ total_hours' = w.total
               /\ uuids' = w.drawn
               /\ last' = [op |-> "grid", raised |-> w.raised, n |-> 0,
                           before |-> Len(table.rows)]
        /\ UNCHANGED <<employee, up, call>>

AutoNext == AutoAppend \/ AutoExport \/ AutoName \/ AutoForm \/ AutoGrid

SpecAuto == AutoInit /\ [][AutoNext]_vars

\* C4: every row of the persisted table has Work Hours equal to
\* calc_row_hours of the row's Start Time, End Time and Break.
C4_WorkHoursDerived ==
    \A i \in DOMAIN table.rows :
        table.rows[i]["Work Hours"] = Num(RowHours(table.rows[i]))

C8_Resolved ==
    /\ employee'["Employee Name"] # employee["Employee Name"]
    /\ employee'["Employee Name"] \in DOMAIN employee_master_dict

C11_Ids(df) ==
    /\ "Row ID" \in df.columns
    /\ \A i \in DOMAIN df.rows : HasId(df.rows[i]["Row ID"])
    /\ \A i, j \in DOMAIN df.rows :
          i # j => df.rows[i]["Row ID"] # df.rows[j]["Row ID"]

\* widget is the frame the grid widget returns, edited is ensure_row_ids of
\* it (line 417)
C11_Kept(widget, edited) ==
    /\ C11_Ids(edited)
    /\ Len(edited.rows) = Len(widget.rows)
    /\ \A i \in DOMAIN widget.rows :
          HasId(widget.rows[i]["Row ID"]) =>
              edited.rows[i]["Row ID"] = widget.rows[i]["Row ID"]

C11_Edits(base) ==
    \A edit \in AutoGridEdits :
        \A widget \in {data_editor(base.df, edit)} :
            C11_Kept(widget, ensure_row_ids(widget, base.drawn).df)

\* C11: every row of the persisted table has a non-blank Row ID that no
\* other row has, and so has every row of the grid after ensure_row_ids for
\* any edit in the widget (cell typed, row added, row deleted); a row that
\* has a non-blank Row ID keeps it through ensure_row_ids, and a row of the
\* persisted table keeps its Row ID from one run to the next.  Stated for
\* the tables before and after every run that changes the persisted table.
C11_StableUniqueIds ==
    [][ table' # table =>
          /\ C11_Ids(table) /\ C11_Ids(table')
          /\ Len(table'.rows) >= Len(table.rows) =>
                 \A i \in DOMAIN table.rows :
                     table'.rows[i]["Row ID"] = table.rows[i]["Row ID"]
          /\ C11_Edits(ensure_row_ids(table, uuids))
          /\ C11_Edits(ensure_row_ids(table', uuids')) ]_vars

\* rows were appended twice to the ten initial rows: the first row still has
\* the first identifier, the last row the latest one
C11_Witness ==
    /\ last.op = "append"
    /\ Len(table.rows) > InitRows + 1
    /\ table.rows[1]["Row ID"] = Txt(Uuid(1))
    /\ table.rows[Len(table.rows)]["Row ID"] = Txt(Uuid(Len(table.rows)))
    /\ last.before > InitRows

\* the Work Hours of every row is a number and the total is their sum
C13_Summed(tbl, total) ==
    /\ \A i \in DOMAIN tbl.rows : tbl.rows[i]["Work Hours"].t = "num"
    /\ total = SumHours(tbl.rows)

\* C13: after every run of timesheet_webui_autofill.py the Work Hours of
\* every row of the persisted table is a number and total_hours is the sum
\* of them (0.00 for a table without rows).
C13_TotalIsSum == last.op # "init" => C13_Summed(table, total_hours)

\* the grid of a call of autofill_rows_by_ids after the Day derivation that
\* follows it in the Work Log section (lines 422-431)
C15_Derived == derive_day(call.df)

C15_OwnDate(i) == str_to_date(StrOf(C15_Derived.rows[i]["Date"]))

\* C15: after autofill_rows_by_ids and the Day derivation, every row, new
\* or not, whose Day was empty or missing and whose Date parses has the
\* weekday abbreviation of its own Date as Day, and a Day that was not
\* blank is unchanged.
C15_DayFromOwnDate ==
    (call.f = "autofill_rows_by_ids" /\ call.applied) =>
        \A i \in DOMAIN call.arg.rows :
            /\ (C12_Untyped(call.arg.rows[i]["Day"]) /\ C15_OwnDate(i) # NoDate) =>
                   C15_Derived.rows[i]["Day"] = Txt(weekday_abbr(C15_OwnDate(i)))
            /\ ~C12_Untyped(call.arg.rows[i]["Day"]) =>
                   C15_Derived.rows[i]["Day"] = call.arg.rows[i]["Day"]

(***************************************************************************)
(* Workbooks (timesheet_webui.py).  A workbook is what pd.read_excel with  *)
(* header=None reads of its sheet: ncols columns and the rows of cells, a  *)
(* blank cell being a missing value; ok is false for bytes pd.ExcelFile    *)
(* cannot open.                                                            *)
(***************************************************************************)
HeaderText ==
    [h \in Range(headers) |->
        CASE h = "Date"          -> <<"D","a","t","e">>
          [] h = "Day"           -> <<"D","a","y">>
          [] h = "Start Time"    -> <<"S","t","a","r","t"," ","T","i","m","e">>
          [] h = "End Time"      -> <<"E","n","d"," ","T","i","m","e">>
          [] h = "Break (hh:mm)" -> <<"B","r","e","a","k"," ","(","h","h",":","m","m",")">>
          [] h = "Work Hours"    -> <<"W","o","r","k"," ","H","o","u","r","s">>
          [] OTHER               -> <<"D","e","s","c","r","i","p","t","i","o","n"," ","o","f"," ","W","o","r","k">>]

Workbook(ncols, rows) == [kind |-> "xlsx", ok |-> TRUE, ncols |-> ncols, rows |-> rows]

Corrupt == [kind |-> "xlsx", ok |-> FALSE, ncols |-> 0, rows |-> <<>>]

\* ws.write / ws.merge_range of a value: "" and None leave a blank cell
Written(c) == IF c.t = "none" \/ c = Txt(<<>>) THEN Missing ELSE c

Label(t) == <<Txt(t), Missing, Missing, Missing, Missing, Missing, Missing>>

EmptyRow == <<Missing, Missing, Missing, Missing, Missing, Missing, Missing>>

\* a row of the employee box: label, value (merged B:D), label, value (merged F:G)
BoxRow(l1, v1, l2, v2) ==
    <<Txt(l1), Written(Txt(v1)), Missing, Missing, Txt(l2), Written(Txt(v2)), Missing>>

\* sheet rows 0..12: titles, employee box, header row
ExportHead(emp) ==
    << Label(<<"Z","E","A","L","C","O","R","P","S"," ","P","T","E"," ","L","T","D">>),
       Label(<<"R","E","M","O","T","E"," ","E","N","G","I","N","E","E","R"," ","T","I","M","E","S","H","E","E","T">>),
       <<Txt(<<"F","o","r","m"," ","N","o",":"," ","Z","C","-","0","3","0">>), Txt(<<"R","e","v","."," ","N","o",":"," ","0","0">>),
         Missing, Missing, Missing, Missing, Missing>>,
       EmptyRow,
       Label(<<"E","m","p","l","o","y","e","e"," ","I","n","f","o","r","m","a","t","i","o","n">>),
       BoxRow(<<"E","m","p","l","o","y","e","e"," ","N","a","m","e",":">>, emp["Employee Name"], <<"I","C","#",":">>, emp["IC#"]),
       BoxRow(<<"D","e","p","a","r","t","m","e","n","t",":">>, emp["Department"], <<"J","o","b"," ","T","i","t","l","e",":">>, emp["Job Title"]),
       BoxRow(<<"R","e","v","i","e","w"," ","M","o","n","t","h",":">>, emp["Review Month"], <<"Y","e","a","r",":">>, emp["Year"]),
       BoxRow(<<"D","a","t","e",":">>, emp["Date"],
              <<"R","e","p","o","r","t","i","n","g"," ","M","a","n","a","g","e","r",":">>, emp["Reporting Manager"]),
       EmptyRow, EmptyRow, EmptyRow,
       [j \in 1..7 |-> Txt(HeaderText[headers[j]])] >>

\* row.get(h, ""), the column being added as "" when the table lacks it
CellOf(row, h) == IF h \in DOMAIN row THEN row[h] ELSE Txt(<<>>)

\* float(row.get("Work Hours", 0.0) or 0.0), 0.0 when float() raises: the
\* column holds floats after recalc_hours, "" after Append Rows
ExportHours(c) == IF c.t = "num" THEN Num(c.n) ELSE Num(0)

\* one data row of the sheet
ExportRow(row) ==
    << Written(CellOf(row, "Date")),
       Written(CellOf(row, "Day")),
       Written(hhmm_or_blank(CellOf(row, "Start Time"))),
       Written(hhmm_or_blank(CellOf(row, "End Time"))),
       Written(Txt(StrOf(CellOf(row, "Break (hh:mm)")))),
       ExportHours(CellOf(row, "Work Hours")),
       Written(CellOf(row, "Description of Work")) >>

\* the totals row (the formula cell holds its cached value 0), an empty row
\* and the signature row
ExportFoot ==
    << <<Missing, Missing, Missing, Missing, Txt(<<"T","o","t","a","l"," ","H","o","u","r","s",":">>), Num(0), Missing>>,
       EmptyRow,
       <<Txt(<<"E","m","p"," ","S","i","g","n","a","t","u","r","e">>), Missing, Missing, Txt(<<"R","M"," ","s","i","g","n","a","t","u","r","e">>), Missing,
         Txt(<<"D","a","t","e">>), Missing>> >>

export_to_excel(emp, tbl) ==
    Workbook(7, ExportHead(emp)
                \o [i \in DOMAIN tbl.rows |-> ExportRow(tbl.rows[i])]
                \o ExportFoot)

HeaderScanRows == 60

\* [str(x).strip() for x in row][:7] == headers
IsHeaderRow(wb, i) ==
    /\ wb.ncols >= 7
    /\ \A j \in 1..7 : /\ wb.rows[i][j].t = "str"
                       /\ Strip(wb.rows[i][j].s) = HeaderText[headers[j]]

\* the scan "for i in range(min(60, len(df)))" from sheet row i on:
\* header_row_idx + 1, or 0 for None
RECURSIVE HeaderScan(_, _)
HeaderScan(wb, i) ==
    IF i > Len(wb.rows) \/ i > HeaderScanRows THEN 0
    ELSE IF IsHeaderRow(wb, i) THEN i
    ELSE HeaderScan(wb, i + 1)

HeaderRowIdx(wb) == HeaderScan(wb, 1)

\* safe_cell(r, c) or ""
safe_cell(wb, r, c) ==
    IF r + 1 \in DOMAIN wb.rows /\ c + 1 <= wb.ncols
    THEN (IF wb.rows[r + 1][c + 1].t = "none" THEN <<>> ELSE StrOf(wb.rows[r + 1][c + 1]))
    ELSE <<>>

LoadEmployee(wb) ==
    [k \in EmpKeys |->
        CASE k = "Employee Name"     -> safe_cell(wb, 5, 1)
          [] k = "IC#"               -> safe_cell(wb, 5, 5)
          [] k = "Department"        -> safe_cell(wb, 6, 1)
          [] k = "Job Title"         -> safe_cell(wb, 6, 5)
          [] k = "Review Month"      -> safe_cell(wb, 7, 1)
          [] k = "Year"              -> safe_cell(wb, 7, 5)
          [] k = "Date"              -> safe_cell(wb, 8, 1)
          [] OTHER                   -> safe_cell(wb, 8, 5)]

\* .fillna(""), and str(x) for Start Time, End Time and Break
LoadCell(h, c) ==
    IF c.t = "none" THEN Txt(<<>>)
    ELSE IF h \in {"Start Time", "End Time", "Break (hh:mm)"} THEN Txt(StrOf(c))
    ELSE c

\* sheet rows as table rows under the seven headers, .dropna(how="all")
LoadRows(rows) ==
    [i \in DOMAIN rows |-> [h \in Range(headers) |->
        LoadCell(h, rows[i][CHOOSE j \in 1..7 : headers[j] = h])]]

NotAllNa(r) == \E j \in 1..7 : r[j].t # "none"

\* the table when the header row was found at idx: the rows below it.
\* table[headers] raises KeyError when a header cell is not the exact name.
LoadBelow(wb, idx) ==
    IF \E j \in 1..7 : wb.rows[idx][j].s # HeaderText[headers[j]]
    THEN [raised |-> TRUE, rows |-> <<>>]
    ELSE [raised |-> FALSE,
          rows   |-> LoadRows(SelectSeq(SubSeq(wb.rows, idx + 1, Len(wb.rows)), NotAllNa))]

\* the table when no header row was found: the first seven columns of every
\* row, or no row when the sheet has fewer columns
LoadAll(wb) ==
    IF wb.ncols >= 7
    THEN [raised |-> FALSE, rows |-> LoadRows(SelectSeq(wb.rows, NotAllNa))]
    ELSE [raised |-> FALSE, rows |-> <<>>]

LoadResult(wb, t) ==
    [raised   |-> t.raised,
     employee |-> LoadEmployee(wb),
     table    |-> DataFrame(Range(headers), t.rows)]

LoadFrom(wb, idx) ==
    IF idx # 0 THEN LoadResult(wb, LoadBelow(wb, idx)) ELSE LoadResult(wb, LoadAll(wb))

\* load_from_excel: raised, or (employee, table)
load_from_excel(wb) ==
    IF ~wb.ok
    THEN [raised |-> TRUE, employee |-> init_employee,
          table |-> DataFrame(Range(headers), <<>>)]
    ELSE LoadFrom(wb, HeaderRowIdx(wb))

(***************************************************************************)
(* timesheet_webui.py: one run of the script per user interaction.  The    *)
(* file stays in the uploader, so every run imports it again.              *)
(***************************************************************************)
init_table ==
    DataFrame(Range(headers),
              [i \in 1..InitRows |->
                  [c \in Range(headers) |->
                      IF c = "Work Hours" THEN Num(0) ELSE Txt(<<>>)]])

Imported(emp, tbl, loaded) ==
    IF loaded.raised
    THEN [outcome |-> "error", employee |-> emp, table |-> tbl]
    ELSE IF Range(headers) \subseteq loaded.table.columns
    THEN [outcome |-> "success", employee |-> loaded.employee, table |-> loaded.table]
    ELSE [outcome |-> "warning", employee |-> emp, table |-> loaded.table]

import_handler_clobber(emp, tbl, file) ==
    IF file = NoFile THEN [outcome |-> "none", employee |-> emp, table |-> tbl]
    ELSE Imported(init_employee, DataFrame(Range(headers), <<>>), load_from_excel(file))

\* "if up is not None: try: ... except Exception: st.error(...)"
import_handler(emp, tbl, file) ==
    IF file = NoFile THEN [outcome |-> "none", employee |-> emp, table |-> tbl]
    ELSE Imported(emp, tbl, load_from_excel(file))

\* the "Append Rows" handler with add_rows = n
AppendRows(tbl, n) ==
    DataFrame(tbl.columns, tbl.rows \o Repeat(BlankRow(tbl.columns), n))

\* the "Clear All Rows" handler
ClearRows(tbl) == DataFrame(tbl.columns, <<>>)

\* the Work Log section: the grid, then "recalc_hours(edited)" is persisted
WorkLog(tbl, edit) == recalc_hours(data_editor(tbl, edit))

\* workbooks that were not exported by the app: one table without the
\* header row, one sheet of two columns
NoHeaderWide ==
    Workbook(7, << <<Txt(T_Jan10), Txt(T_Wed), Txt(T_0930), Txt(T_1700),
                     Missing, Num(750), Txt(<<"w">>)>>,
                   EmptyRow >>)

NoHeaderNarrow == Workbook(2, << <<Txt(<<"a">>), Txt(<<"b">>)>> >>)

BaseInit ==
    /\ employee = init_employee
    /\ table = init_table
    /\ total_hours = 0
    /\ uuids = 0
    /\ up = NoFile
    /\ last = NoRun
    /\ call = NoCall

\* the rest of a run after the sidebar: the Work Log section with edit
BaseFinish(op, i, tbl, edit) ==
    \E w \in {WorkLog(tbl, edit)} :
        /\ table' = w.df
        /\ total_hours' = w.total
        /\ last' = [op |-> op, outcome |-> i.outcome]

\* the rows of tbl that are the totals row of an imported download
TotalsRows(tbl) ==
    {i \in DOMAIN tbl.rows : tbl.rows[i]["Break (hh:mm)"] = ExportFoot[1][5]}

\* a file is put in the uploader: a file the app cannot read, a workbook
\* the app did not export, or the download the last run offered, of a table
\* that was not itself imported from a download
BaseUpload ==
    \E file \in {Corrupt, NoHeaderWide, NoHeaderNarrow}
                  \cup (IF /\ call.f = "export_to_excel"
                           /\ TotalsRows(call.table) = {}
                        THEN {call.data} ELSE {}) :
        /\ up' = file
        /\ \E i \in {import_handler(employee, table, file)} :
              /\ Len(i.table.rows) <= MaxRows
              /\ employee' = i.employee
              /\ BaseFinish("upload", i, i.table, NoEdit)
        /\ call' = NoCall
        /\ UNCHANGED uuids

\* the file is removed from the uploader
BaseRemove ==
    /\ up # NoFile
    /\ up' = NoFile
    /\ \E i \in {import_handler(employee, table, NoFile)} :
          /\ employee' = i.employee
          /\ BaseFinish("remove", i, i.table, NoEdit)
    /\ call' = NoCall
    /\ UNCHANGED uuids

\* sidebar "Append Rows" with add_rows = n
BaseAppend ==
    \E n \in 1..MaxAdd :
        \E i \in {import_handler(employee, table, up)} :
            /\ Len(i.table.rows) + n <= MaxRows
            /\ employee' = i.employee
            /\ BaseFinish("append", i, AppendRows(i.table, n), NoEdit)
            /\ call' = NoCall
            /\ UNCHANGED <<uuids, up>>

\* sidebar "Clear All Rows"
BaseClear ==
    \E i \in {import_handler(employee, table, up)} :
        /\ employee' = i.employee
        /\ BaseFinish("clear", i, ClearRows(i.table), NoEdit)
        /\ call' = NoCall
        /\ UNCHANGED <<uuids, up>>

\* sidebar "Export to Excel": recalc_hours is stored and the workbook is
\* offered for download in this run
BaseExport ==
    \E i \in {import_handler(employee, table, up)} :
        \E r \in {recalc_hours(i.table)} :
            /\ employee' = i.employee
            /\ call' = [f |-> "export_to_excel", employee |-> i.employee,
                        table |-> r.df, data |-> export_to_excel(i.employee, r.df)]
            /\ BaseFinish("export", i, r.df, NoEdit)
            /\ UNCHANGED <<uuids, up>>

BaseFormKeys == {"Employee Name"}
BaseFormTexts == {<<>>, T_Zed}

\* a text typed in one of the employee text inputs
BaseForm ==
    \E k \in BaseFormKeys, v \in BaseFormTexts :
        \E i \in {import_handler(employee, table, up)} :
            /\ employee' = [i.employee EXCEPT ![k] = v]
            /\ BaseFinish("form", i, i.table, NoEdit)
            /\ call' = NoCall
            /\ UNCHANGED <<uuids, up>>

\* the edits offered: a row added to an empty grid, a Start Time or an End
\* Time typed in the first row
BaseGridEdits(tbl) ==
    IF tbl.rows = <<>>
    THEN { [kind |-> "add", row |-> 0, col |-> "Start Time", val |-> Txt(T_0930)] }
    ELSE { [kind |-> "cell", row |-> 1, col |-> "Start Time", val |-> Txt(T_0930)],
           [kind |-> "cell", row |-> 1, col |-> "End Time", val |-> Txt(T_1700)] }

\* an edit in the grid widget
BaseGrid ==
    \E i \in {import_handler(employee, table, up)} :
        \E edit \in BaseGridEdits(i.table) :
            /\ employee' = i.employee
            /\ BaseFinish("grid", i, i.table, edit)
            /\ call' = NoCall
            /\ UNCHANGED <<uuids, up>>

BaseNext ==
    \/ BaseUpload \/ BaseRemove \/ BaseAppend \/ BaseClear
    \/ BaseExport \/ BaseForm \/ BaseGrid

SpecBase == BaseInit /\ [][BaseNext]_vars

C7_Compared == Range(headers) \ {"Work Hours"}

C7_SameRows(loaded, exported) ==
    /\ Len(loaded.rows) = Len(exported.rows)
    /\ \A i \in DOMAIN exported.rows : \A h \in C7_Compared :
          loaded.rows[i][h] = exported.rows[i][h]

\* C7: the workbook export_to_excel returns loads back (load_from_excel) as
\* the same eight employee fields and a table of the same rows in the same
\* order, equal in Date, Day, Start Time, End Time, Break and Description.
C7_RoundTrip ==
    call.f = "export_to_excel" =>
        /\ ~load_from_excel(call.data).raised
        /\ load_from_excel(call.data).employee = call.employee
        /\ C7_SameRows(load_from_excel(call.data).table, call.table)

C9_Raises == up' # NoFile /\ load_from_excel(up').raised

\* C9: in a run whose uploaded file makes load_from_excel raise, an error is
\* reported and the import leaves the employee record and the table as they
\* were: nothing changes in the run of the upload itself or of an export,
\* the table is unchanged when a form field is typed, and the employee
\* record is unchanged when rows are appended, cleared or edited.
C9_FailedImportAtomic ==
    [][ C9_Raises =>
          /\ last'.outcome = "error"
          /\ last'.op \in {"upload", "export"} => (employee' = employee /\ table' = table)
          /\ last'.op = "form" => table' = table
          /\ last'.op \in {"append", "clear", "grid"} => employee' = employee ]_vars

C9_Witness ==
    /\ last.op = "upload" /\ last.outcome = "error"
    /\ up = Corrupt
    /\ employee["Employee Name"] = T_Zed
    /\ \E i \in DOMAIN table.rows :
          /\ table.rows[i]["Start Time"] = Txt(T_0930)
          /\ table.rows[i]["End Time"] = Txt(T_1700)
          /\ table.rows[i]["Work Hours"] = Num(750)

C10_NoHeader == up # NoFile /\ up.ok /\ HeaderRowIdx(up) = 0

\* C10: when the uploaded workbook opens but has no row, among its first 60,
\* whose first seven cells are the header list, the import outcome is
\* 'warning' and the table load_from_excel returned is the session's table.
C10_MismatchWarns ==
    (C10_NoHeader /\ last.op = "upload") =>
        /\ last.outcome = "warning"
        /\ table = recalc_hours(load_from_excel(up).table).df

\* The same for timesheet_webui.py, where every run reaches recalc_hours.
C13_BaseTotalIsSum == last.op # "init" => C13_Summed(table, total_hours)

C13_BaseWitness ==
    /\ last.op = "grid"
    /\ total_hours > 0
    /\ Len(table.rows) > 0

====
